---- MODULE Spec2Model ----
(***************************************************************************)
(* ShenandoahPacer (shenandoahPacer.cpp): the allocation pacer of the      *)
(* Shenandoah collector.  Mutator threads call pace_for_alloc, which       *)
(* claims allocation budget with a CAS loop (claim_for_alloc) and sleeps   *)
(* in 1 ms quanta when the budget is short; the collector's phase driver   *)
(* calls setup_for_mark / _evac / _updaterefs / _idle, each of which ends  *)
(* in restart_with (CAS the budget, then store the tax rate).              *)
(*                                                                         *)
(* Every load, CAS and store of _budget and _tax_rate is one step.  The    *)
(* tax rate is a C++ double; it is modelled as an exact reduced fraction   *)
(* [num, den], so floating-point rounding is not represented.  One         *)
(* os::sleep(1) advances the sleeping thread's elapsed time by exactly one *)
(* millisecond.                                                            *)
(***************************************************************************)
EXTENDS Integers, Naturals, Sequences, FiniteSets, TLC

\* ---------------------------------------------------------------- bounds
\* Total number of pace_for_alloc calls the mutators make.
MaxCalls == 2
\* Total number of phase setups the phase driver makes.
MaxSetups == 1
\* Largest heap metric (bytes) of the tax-formula sweep.
MaxSweepBytes == 9

\* The -XX:ShenandoahPacingMaxDelay flag, in milliseconds: a call that finds
\* the budget short retries after 1 ms and times out after 2 ms.
ShenandoahPacingMaxDelay == 1

\* log2 of the heap word size in bytes (64-bit VM), used by restart_with.
LogHeapWordSize == 3

Mutators == {"m1", "m2"}

\* Inputs of the concurrent specification.
WordSizes      == {0, 2}
UsedValues     == {16}
FreeValues     == {32}
CSetValues     == {16}
CapacityValues == {64}
CycleSlackValues == {50}
IdleSlackValues  == {25}

\* Inputs of the specification with precondition violations: no free space,
\* with and without work for the collector.
BreachWork == {0, 16}
BreachFree == {0}

\* Inputs of the tax-formula sweep.
SweepBytes  == (0..MaxSweepBytes) \cup {90}
SweepFree   == (1..MaxSweepBytes) \cup {10}
SweepSlacks == 0..99
SweepCapacities == SweepBytes \cup {1000 * 1024 * 1024}
SweepIdleSlacks == {1}

VARIABLES
  _budget,      \* intptr_t _budget: remaining budget, in heap words
  _tax_rate,    \* double _tax_rate, as a reduced fraction [num, den]
  _delays,      \* the delay histogram: level -> count
  ShenandoahPacing,            \* flag: pacing is enabled
  ShenandoahPacingCycleSlack,  \* flag, percent
  ShenandoahPacingIdleSlack,   \* flag, percent
  \* --- each mutator's position and locals
  pc,           \* "idle", "tax", "load", "cas", "sleep", "add"
  site,         \* the claim_for_alloc call site: "fast", "retry", "force"
  words,        \* pace_for_alloc's argument
  tax,          \* claim_for_alloc's local tax (the cost of the claim)
  cur,          \* claim_for_alloc's local cur
  new_val,      \* claim_for_alloc's local new_val
  ms,           \* pace_for_alloc's elapsed milliseconds
  \* --- the phase driver's position and locals
  dpc,          \* "idle", "load", "cas", "store"
  phase,        \* the setup in progress or last run: "none", "mark", ...
  initial,      \* restart_with's local initial
  tax_rate,     \* restart_with's parameter tax_rate
  dcur,         \* restart_with's local cur
  heap,         \* what the setup read from the heap: [work, free, capacity]
  \* --- history (not program state)
  calls,        \* pace_for_alloc calls started
  setups,       \* phase setups started
  epoch,        \* restart_with CASes that succeeded
  taxStores,    \* restart_with stores of the tax rate
  installed,    \* the budget the last successful restart_with CAS installed
  spent,        \* costs of the claims whose CAS succeeded since that CAS
  staleSpent,   \* ... of those, claims begun before that restart_with's store
  taxEpoch,     \* per mutator: which restart_with's tax rate its claim read
  slowEntered,  \* pace_for_alloc calls that entered the slow path
  fastCost,     \* per mutator: the cost its call's fast-path claim computed
  loadEpoch     \* per mutator: epoch when its claim loaded the budget

mvars == <<pc, site, words, tax, cur, new_val, ms, taxEpoch, fastCost,
           loadEpoch>>
dvars == <<dpc, phase, initial, tax_rate, dcur, heap>>
flags == <<ShenandoahPacing, ShenandoahPacingCycleSlack,
           ShenandoahPacingIdleSlack>>
hist  == <<calls, setups, epoch, taxStores, installed, spent, staleSpent,
           slowEntered>>
vars  == <<_budget, _tax_rate, _delays, flags, mvars, dvars, hist>>

\* ------------------------------------------------------------ arithmetic
RECURSIVE GCD(_, _)
GCD(a, b) == IF b = 0 THEN a ELSE GCD(b, a % b)

\* The double n/d (n >= 0, d >= 0) as a fraction in lowest terms.  Division
\* by 0.0 gives what IEEE 754 gives: infinity, [1, 0], and 0.0/0.0 = NaN,
\* [0, 0].
Frac(n, d) ==
  IF d = 0
    THEN [num |-> IF n = 0 THEN 0 ELSE 1, den |-> 0]
    ELSE LET g == GCD(n, d) IN [num |-> n \div g, den |-> d \div g]

IsFinite(r) == r.den # 0

FracMul(r, n, d) == Frac(r.num * n, r.den * d)
FracLess(a, b)   == a.num * b.den < b.num * a.den
\* MAX2<double>(a, b) is (a > b) ? a : b
MAX2frac(a, b)   == IF FracLess(b, a) THEN a ELSE b
MAX2(a, b)       == IF a > b THEN a ELSE b
One              == Frac(1, 1)

\* (intptr_t)(n * r): the product of an integer and a double, truncated.
Trunc(n, r) == (n * r.num) \div r.den

Pow2(n) == 2 ^ n

\* The conversion of an infinity or a NaN to size_t or intptr_t is undefined
\* behaviour; 0 and a large value stand for what a build can produce.
UndefinedCast == {0, Pow2(20)}

\* Mutant: a plain store in place of the compare-and-exchange.
cmpxchg_blind(mem, compare) == TRUE

\* Mutant: the exchange is also installed over a larger value.
cmpxchg_at_least(mem, compare) == mem >= compare

\* Atomic::cmpxchg(exchange, dest, compare) != compare is false: the value
\* in memory is the one compared against, and the exchange is installed.
cmpxchg_succeeds(mem, compare) == mem = compare

\* ---------------------------------------------------------- the histogram
RECURSIVE Log2Floor(_)
Log2Floor(n) == IF n <= 1 THEN 0 ELSE 1 + Log2Floor(n \div 2)

\* The histogram level of a delay: 0 for 0 ms, floor(log2(ms)) + 1 otherwise.
Level(d) == IF d = 0 THEN 0 ELSE Log2Floor(d) + 1

Levels == 0..Level(ShenandoahPacingMaxDelay + 1)

\* _delays.add(ms)
add(h, d) == [h EXCEPT ![Level(d)] = @ + 1]

RECURSIVE SumTo(_, _)
SumTo(h, n) == IF n < 0 THEN 0 ELSE h[n] + SumTo(h, n - 1)
\* The total number of delay records.
Total(h) == SumTo(h, Level(ShenandoahPacingMaxDelay + 1))

\* ------------------------------------------------------------ phase setup
\* size_t non_taxable = free * ShenandoahPacingCycleSlack / 100
NonTaxable(free, slack) == (free * slack) \div 100

\* Mutant: the floor MAX2<double>(1, tax) is left out.
PhaseTaxNoFloor(work, taxable, k) ==
  FracMul(FracMul(Frac(work, taxable), k, 1), 11, 10)

\* Mutant: the phase's weight k is left out.
PhaseTaxUnweighted(work, taxable, k) ==
  FracMul(MAX2frac(One, Frac(work, taxable)), 11, 10)

\* tax = 1.0 * work / taxable;  tax *= k;  tax = MAX2<double>(1, tax);
\* tax *= 1.1
PhaseTax(work, taxable, k) ==
  FracMul(MAX2frac(One, FracMul(Frac(work, taxable), k, 1)), 11, 10)

\* Mutant: the allowance is not multiplied by the tax rate.
InitialBudgetUntaxed(non_taxable_bytes, rate) ==
  non_taxable_bytes \div Pow2(LogHeapWordSize)

\* intptr_t initial = (size_t)(non_taxable_bytes * tax_rate) >> LogHeapWordSize
InitialBudget(non_taxable_bytes, rate) ==
  Trunc(non_taxable_bytes, rate) \div Pow2(LogHeapWordSize)

\* Mutant: the tax rate is stored before the CAS loop on the budget.
AfterRestartTaxFirst(p) ==
  CASE p = "idle"  -> "store"
    [] p = "store" -> "load"
    [] p = "cas"   -> "idle"

\* The order of restart_with's steps (lines 141-144): the CAS loop on
\* _budget, then the store of _tax_rate, then the return.
AfterRestart(p) ==
  CASE p = "idle"  -> "load"
    [] p = "cas"   -> "store"
    [] p = "store" -> "idle"

\* The call restart_with(non_taxable_bytes, rate) up to its first step.
restart_with(non_taxable_bytes, rate, ph) ==
  /\ dpc = "idle"
  /\ dpc' = AfterRestart("idle")
  /\ phase' = ph
  /\ initial' \in IF IsFinite(rate)
                    THEN {InitialBudget(non_taxable_bytes, rate)}
                    ELSE {c \div Pow2(LogHeapWordSize) : c \in UndefinedCast}
  /\ tax_rate' = rate
  /\ setups' = setups + 1
  /\ UNCHANGED <<_budget, _tax_rate, _delays, flags, mvars, dcur, calls,
                 epoch, taxStores, installed, spent, staleSpent, slowEntered>>

setup_for_mark(used, free) ==
  LET non_taxable == NonTaxable(free, ShenandoahPacingCycleSlack)
      taxable     == free - non_taxable
  IN  /\ ShenandoahPacing
      /\ restart_with(non_taxable, PhaseTax(used, taxable, 3), "mark")
      /\ heap' = [work |-> used, free |-> free, capacity |-> 0]

setup_for_evac(cset, free) ==
  LET non_taxable == NonTaxable(free, ShenandoahPacingCycleSlack)
      taxable     == free - non_taxable
  IN  /\ ShenandoahPacing
      /\ restart_with(non_taxable, PhaseTax(cset, taxable, 2), "evac")
      /\ heap' = [work |-> cset, free |-> free, capacity |-> 0]

setup_for_updaterefs(used, free) ==
  LET non_taxable == NonTaxable(free, ShenandoahPacingCycleSlack)
      taxable     == free - non_taxable
  IN  /\ ShenandoahPacing
      /\ restart_with(non_taxable, PhaseTax(used, taxable, 1), "updaterefs")
      /\ heap' = [work |-> used, free |-> free, capacity |-> 0]

setup_for_idle(capacity) ==
  LET init == (capacity * ShenandoahPacingIdleSlack) \div 100
  IN  /\ ShenandoahPacing
      /\ restart_with(init, One, "idle")
      /\ heap' = [work |-> 0, free |-> 0, capacity |-> capacity]

\* restart_with, line 142: cur = load_acquire(&_budget)
RestartLoad ==
  /\ dpc = "load"
  /\ dcur' = _budget
  /\ dpc' = "cas"
  /\ UNCHANGED <<_budget, _tax_rate, _delays, flags, mvars, phase, initial,
                 tax_rate, heap, hist>>

\* Mutant: one CAS attempt instead of the loop; a defeated CAS installs
\* nothing and restart_with goes on to the store.
RestartCasOnce ==
  /\ dpc = "cas"
  /\ IF cmpxchg_succeeds(_budget, dcur)
       THEN /\ _budget' = initial
            /\ epoch' = epoch + 1
            /\ installed' = initial
            /\ spent' = 0
            /\ staleSpent' = 0
       ELSE UNCHANGED <<_budget, epoch, installed, spent, staleSpent>>
  /\ dpc' = AfterRestart("cas")
  /\ dcur' = 0
  /\ UNCHANGED <<_tax_rate, _delays, flags, mvars, phase, initial, tax_rate,
                 heap, calls, setups, taxStores, slowEntered>>

\* Mutant: a defeated CAS is repeated without loading the budget again.
RestartCasNoReload ==
  /\ dpc = "cas"
  /\ IF cmpxchg_succeeds(_budget, dcur)
       THEN /\ _budget' = initial
            /\ dpc' = AfterRestart("cas")
            /\ epoch' = epoch + 1
            /\ installed' = initial
            /\ spent' = 0
            /\ staleSpent' = 0
            /\ dcur' = 0
       ELSE UNCHANGED <<_budget, dpc, epoch, installed, spent, staleSpent,
                        dcur>>
  /\ UNCHANGED <<_tax_rate, _delays, flags, mvars, phase, initial, tax_rate,
                 heap, calls, setups, taxStores, slowEntered>>

\* restart_with, line 143: cmpxchg(initial, &_budget, cur)
RestartCas ==
  /\ dpc = "cas"
  /\ IF cmpxchg_succeeds(_budget, dcur)
       THEN /\ _budget' = initial
            /\ dpc' = AfterRestart("cas")
            /\ epoch' = epoch + 1
            /\ installed' = initial
            /\ spent' = 0
            /\ staleSpent' = 0
       ELSE /\ dpc' = "load"
            /\ UNCHANGED <<_budget, epoch, installed, spent, staleSpent>>
  /\ dcur' = 0
  /\ UNCHANGED <<_tax_rate, _delays, flags, mvars, phase, initial, tax_rate,
                 heap, calls, setups, taxStores, slowEntered>>

\* restart_with, line 144: release_store(&_tax_rate, tax_rate)
RestartStore ==
  /\ dpc = "store"
  /\ _tax_rate' = tax_rate
  /\ dpc' = AfterRestart("store")
  /\ taxStores' = taxStores + 1
  /\ UNCHANGED <<_budget, _delays, flags, mvars, phase, initial, tax_rate,
                 dcur, heap, calls, setups, epoch, installed, spent, staleSpent,
                 slowEntered>>

RestartStep == RestartLoad \/ RestartCas \/ RestartStore

\* ----------------------------------------------------------- the mutators
\* Mutant: the floor MAX2<intptr_t>(1, .) is left out.
ClaimCostNoFloor(w, rate) == Trunc(w, rate)

\* intptr_t tax = MAX2<intptr_t>(1, words * load_acquire(&_tax_rate))
ClaimCost(w, rate) == MAX2(1, Trunc(w, rate))

\* The values the cost can take: one for a finite tax rate; for an infinite
\* or NaN tax rate the conversion of the product to intptr_t is undefined.
ClaimCosts(w, rate) ==
  IF IsFinite(rate) THEN {ClaimCost(w, rate)}
                    ELSE {MAX2(1, c) : c \in UndefinedCast}

\* The argument force of the claim_for_alloc call mutator m is in.
force(m) == site[m] = "force"

\* Mutant: cur <= tax in place of cur < tax.
DepletedOffByOne(c, t, f) == c <= t

\* Mutant: the test is left out.
DepletedNever(c, t, f) == FALSE

\* claim_for_alloc, line 156: the test that ends the claim without a CAS.
\* The parameter force is not consulted.
Depleted(c, t, f) == c < t

\* Mutant: the deadline is missed by one quantum.
TimedOutLate(d) == d > ShenandoahPacingMaxDelay + 1

\* Mutant: ms >= max_wait_ms in place of ms > max_wait_ms.
TimedOutAtDeadline(d) == d >= ShenandoahPacingMaxDelay

\* pace_for_alloc, line 183: if (ms > max_wait_ms)
TimedOut(d) == d > ShenandoahPacingMaxDelay

\* Mutant: a successful retry returns without recording the delay.
AfterClaimReturns(s) == "idle"

\* Where pace_for_alloc goes when its claim_for_alloc call returned true:
\* it returns (lines 170 and 192), or records the delay first (line 197).
AfterClaim(s) == IF s = "retry" THEN "add" ELSE "idle"

\* pace_for_alloc returns: its locals go out of scope.
Return(m) ==
  /\ pc' = [pc EXCEPT ![m] = "idle"]
  /\ site' = [site EXCEPT ![m] = "fast"]
  /\ words' = [words EXCEPT ![m] = 0]
  /\ ms' = [ms EXCEPT ![m] = 0]
  /\ fastCost' = [fastCost EXCEPT ![m] = 0]

\* claim_for_alloc returns: its locals go out of scope.
ClaimEnds(m) ==
  /\ tax' = [tax EXCEPT ![m] = 0]
  /\ cur' = [cur EXCEPT ![m] = 0]
  /\ new_val' = [new_val EXCEPT ![m] = 0]
  /\ taxEpoch' = [taxEpoch EXCEPT ![m] = 0]
  /\ loadEpoch' = [loadEpoch EXCEPT ![m] = 0]

\* pace_for_alloc(w) is called (the assertion of line 166 holds); its
\* fast-path claim_for_alloc(w, false) begins.
PaceCall(m, w) ==
  /\ pc[m] = "idle"
  /\ ShenandoahPacing
  /\ pc' = [pc EXCEPT ![m] = "tax"]
  /\ site' = [site EXCEPT ![m] = "fast"]
  /\ words' = [words EXCEPT ![m] = w]
  /\ calls' = calls + 1
  /\ UNCHANGED <<_budget, _tax_rate, _delays, flags, tax, cur, new_val, ms,
                 taxEpoch, fastCost, loadEpoch, dvars, setups, epoch, taxStores, installed,
                 spent, staleSpent, slowEntered>>

\* Mutant: a retry and the forced claim reuse the cost of the call's
\* fast-path claim instead of reading _tax_rate.
ClaimTaxOnce(m) ==
  /\ pc[m] = "tax"
  /\ ShenandoahPacing
  /\ \E c \in ClaimCosts(words[m], _tax_rate) :
       IF site[m] = "fast"
         THEN /\ tax' = [tax EXCEPT ![m] = c]
              /\ fastCost' = [fastCost EXCEPT ![m] = c]
         ELSE /\ tax' = [tax EXCEPT ![m] = fastCost[m]]
              /\ UNCHANGED fastCost
  /\ taxEpoch' = [taxEpoch EXCEPT ![m] = taxStores]
  /\ pc' = [pc EXCEPT ![m] = "load"]
  /\ UNCHANGED <<_budget, _tax_rate, _delays, flags, site, words, cur,
                 new_val, ms, loadEpoch, dvars, hist>>

\* claim_for_alloc, lines 148-150: the assertion holds; read _tax_rate and
\* compute the cost.
ClaimTax(m) ==
  /\ pc[m] = "tax"
  /\ ShenandoahPacing
  /\ \E c \in ClaimCosts(words[m], _tax_rate) :
       /\ tax' = [tax EXCEPT ![m] = c]
       /\ fastCost' = IF site[m] = "fast" THEN [fastCost EXCEPT ![m] = c]
                                           ELSE fastCost
  /\ taxEpoch' = [taxEpoch EXCEPT ![m] = taxStores]
  /\ pc' = [pc EXCEPT ![m] = "load"]
  /\ UNCHANGED <<_budget, _tax_rate, _delays, flags, site, words, cur,
                 new_val, ms, loadEpoch, dvars, hist>>

\* claim_for_alloc, lines 155-160: load _budget; return false when it is
\* below the cost, else compute new_val.  On false, pace_for_alloc goes on:
\* the fast path enters the slow path (line 174), a retry sleeps again, the
\* forced claim's result is dropped and pace_for_alloc returns (line 192).
ClaimLoad(m) ==
  /\ pc[m] = "load"
  /\ IF Depleted(_budget, tax[m], force(m))
       THEN /\ ClaimEnds(m)
            /\ IF site[m] = "force"
                 THEN Return(m) /\ UNCHANGED slowEntered
                 ELSE /\ pc' = [pc EXCEPT ![m] = "sleep"]
                      /\ slowEntered' = IF site[m] = "fast"
                                          THEN slowEntered + 1
                                          ELSE slowEntered
                      /\ UNCHANGED <<site, words, ms, fastCost>>
       ELSE /\ cur' = [cur EXCEPT ![m] = _budget]
            /\ new_val' = [new_val EXCEPT ![m] = _budget - tax[m]]
            /\ loadEpoch' = [loadEpoch EXCEPT ![m] = epoch]
            /\ pc' = [pc EXCEPT ![m] = "cas"]
            /\ UNCHANGED <<site, words, tax, ms, taxEpoch, fastCost,
                           slowEntered>>
  /\ UNCHANGED <<_budget, _tax_rate, _delays, flags, dvars, calls, setups,
                 epoch, taxStores, installed, spent, staleSpent>>

\* Mutant: a defeated CAS is repeated without loading the budget again.
ClaimCasNoReload(m) ==
  /\ pc[m] = "cas"
  /\ IF cmpxchg_succeeds(_budget, cur[m])
       THEN /\ _budget' = new_val[m]
            /\ spent' = spent + tax[m]
            /\ staleSpent' = IF taxEpoch[m] < epoch THEN staleSpent + tax[m]
                                                    ELSE staleSpent
            /\ ClaimEnds(m)
            /\ IF AfterClaim(site[m]) = "add"
                 THEN /\ pc' = [pc EXCEPT ![m] = "add"]
                      /\ UNCHANGED <<site, words, ms, fastCost>>
                 ELSE Return(m)
       ELSE UNCHANGED <<_budget, spent, staleSpent, mvars>>
  /\ UNCHANGED <<_tax_rate, _delays, flags, dvars, calls, setups, epoch,
                 taxStores, installed, slowEntered>>

\* claim_for_alloc, line 161: cmpxchg(new_val, &_budget, cur); on success
\* return true, and pace_for_alloc returns (fast path, forced claim) or
\* goes on to record the delay (retry, line 197).
ClaimCas(m) ==
  /\ pc[m] = "cas"
  /\ IF cmpxchg_succeeds(_budget, cur[m])
       THEN /\ _budget' = new_val[m]
            /\ spent' = spent + tax[m]
            /\ staleSpent' = IF taxEpoch[m] < epoch THEN staleSpent + tax[m]
                                                    ELSE staleSpent
            /\ ClaimEnds(m)
            /\ IF AfterClaim(site[m]) = "add"
                 THEN /\ pc' = [pc EXCEPT ![m] = "add"]
                      /\ UNCHANGED <<site, words, ms, fastCost>>
                 ELSE Return(m)
       ELSE /\ pc' = [pc EXCEPT ![m] = "load"]
            /\ cur' = [cur EXCEPT ![m] = 0]
            /\ new_val' = [new_val EXCEPT ![m] = 0]
            /\ loadEpoch' = [loadEpoch EXCEPT ![m] = 0]
            /\ UNCHANGED <<_budget, spent, staleSpent, site, words, tax, ms,
                           taxEpoch, fastCost>>
  /\ UNCHANGED <<_tax_rate, _delays, flags, dvars, calls, setups, epoch,
                 taxStores, installed, slowEntered>>

\* pace_for_alloc, lines 179-183 and 195: sleep 1 ms, recompute the elapsed
\* time; past the maximal delay take the timeout branch, else retry.
Sleep(m) ==
  /\ pc[m] = "sleep"
  /\ ms' = [ms EXCEPT ![m] = @ + 1]
  /\ IF TimedOut(ms'[m])
       THEN /\ pc' = [pc EXCEPT ![m] = "add"]
            /\ site' = [site EXCEPT ![m] = "force"]
       ELSE /\ pc' = [pc EXCEPT ![m] = "tax"]
            /\ site' = [site EXCEPT ![m] = "retry"]
  /\ UNCHANGED <<_budget, _tax_rate, _delays, flags, words, tax, cur,
                 new_val, taxEpoch, fastCost, loadEpoch, dvars, hist>>

\* pace_for_alloc, lines 187 and 197: _delays.add(ms).  On the timeout
\* branch the forced claim follows (line 191); after a successful retry
\* pace_for_alloc returns.
Add(m) ==
  /\ pc[m] = "add"
  /\ _delays' = add(_delays, ms[m])
  /\ IF site[m] = "force"
       THEN /\ pc' = [pc EXCEPT ![m] = "tax"]
            /\ UNCHANGED <<site, words, ms, fastCost>>
       ELSE Return(m)
  /\ UNCHANGED <<_budget, _tax_rate, flags, tax, cur, new_val, taxEpoch,
                 loadEpoch, dvars, hist>>

\* A step of mutator m inside a pace_for_alloc call.
Running(m) == ClaimTax(m) \/ ClaimLoad(m) \/ ClaimCas(m) \/ Sleep(m) \/ Add(m)

\* ------------------------------------------------------ the specifications
\* The pacer when the mutators start: the heap's initialization has
\* constructed it and run setup_for_idle to completion; nothing is recorded.
InitPacer(capacity) ==
  /\ initial = InitialBudget((capacity * ShenandoahPacingIdleSlack) \div 100, One)
  /\ tax_rate = One
  /\ phase = "idle"
  /\ dpc = "idle"
  /\ dcur = 0
  /\ heap = [work |-> 0, free |-> 0, capacity |-> capacity]
  /\ _budget = initial
  /\ _tax_rate = tax_rate
  /\ _delays = [l \in Levels |-> 0]
  /\ pc = [m \in Mutators |-> "idle"]
  /\ site = [m \in Mutators |-> "fast"]
  /\ words = [m \in Mutators |-> 0]
  /\ tax = [m \in Mutators |-> 0]
  /\ cur = [m \in Mutators |-> 0]
  /\ new_val = [m \in Mutators |-> 0]
  /\ ms = [m \in Mutators |-> 0]
  /\ taxEpoch = [m \in Mutators |-> 0]
  /\ fastCost = [m \in Mutators |-> 0]
  /\ loadEpoch = [m \in Mutators |-> 0]
  /\ calls = 0
  /\ setups = 0
  /\ epoch = 0
  /\ taxStores = 0
  /\ installed = initial
  /\ spent = 0
  /\ staleSpent = 0
  /\ slowEntered = 0

Init ==
  /\ ShenandoahPacing = TRUE
  /\ ShenandoahPacingCycleSlack \in CycleSlackValues
  /\ ShenandoahPacingIdleSlack \in IdleSlackValues
  /\ \E c \in CapacityValues : InitPacer(c)

Next ==
  \/ \E m \in Mutators, w \in WordSizes : calls < MaxCalls /\ PaceCall(m, w)
  \/ \E m \in Mutators : ClaimTax(m)
  \/ \E m \in Mutators : ClaimLoad(m)
  \/ \E m \in Mutators : ClaimCas(m)
  \/ \E m \in Mutators : Sleep(m)
  \/ \E m \in Mutators : Add(m)
  \/ \E u \in UsedValues, f \in FreeValues :
       setups < MaxSetups /\ setup_for_mark(u, f)
  \/ \E c \in CSetValues, f \in FreeValues :
       setups < MaxSetups /\ setup_for_evac(c, f)
  \/ \E u \in UsedValues, f \in FreeValues :
       setups < MaxSetups /\ setup_for_updaterefs(u, f)
  \/ \E c \in CapacityValues : setups < MaxSetups /\ setup_for_idle(c)
  \/ RestartLoad
  \/ RestartCas
  \/ RestartStore

Spec == Init /\ [][Next]_vars

\* Only the phase driver is sure to be scheduled.
DriverFairSpec == Spec /\ WF_vars(RestartStep)

\* Every mutator that is inside a call keeps being scheduled; the phase
\* driver may stop anywhere.
MutatorFairSpec == Spec /\ \A m \in Mutators : WF_vars(Running(m))

\* Every thread that is inside a call keeps being scheduled.
FairSpec ==
  /\ Spec
  /\ \A m \in Mutators : WF_vars(Running(m))
  /\ WF_vars(RestartStep)

\* The tax formulas alone: one phase setup, run to completion, for every
\* slack percentage and a range of heap metrics; no mutator runs.
SweepInit ==
  /\ ShenandoahPacing = TRUE
  /\ ShenandoahPacingCycleSlack \in SweepSlacks
  /\ ShenandoahPacingIdleSlack \in SweepIdleSlacks
  /\ \E c \in CapacityValues : InitPacer(c)

SweepNext ==
  \/ \E u \in SweepBytes, f \in SweepFree : setups = 0 /\ setup_for_mark(u, f)
  \/ \E c \in SweepBytes, f \in SweepFree : setups = 0 /\ setup_for_evac(c, f)
  \/ \E u \in SweepBytes, f \in SweepFree :
       setups = 0 /\ setup_for_updaterefs(u, f)
  \/ \E c \in SweepCapacities : setups = 0 /\ setup_for_idle(c)
  \/ RestartLoad
  \/ RestartCas
  \/ RestartStore

SweepSpec == SweepInit /\ [][SweepNext]_vars

\* Precondition violations: pacing may be disabled, in which case no setup
\* has run and the pacer holds budget 0 and tax rate 1; and every cycle
\* setup is called with no free space, hence with taxable == 0.
BreachInit ==
  /\ ShenandoahPacing \in BOOLEAN
  /\ ShenandoahPacingCycleSlack \in CycleSlackValues
  /\ ShenandoahPacingIdleSlack \in IdleSlackValues
  /\ \E c \in (IF ShenandoahPacing THEN CapacityValues ELSE {0}) : InitPacer(c)

BreachNext ==
  \/ \E m \in Mutators, w \in WordSizes : calls < MaxCalls /\ PaceCall(m, w)
  \/ \E m \in Mutators : ClaimTax(m)
  \/ \E m \in Mutators : ClaimLoad(m)
  \/ \E m \in Mutators : ClaimCas(m)
  \/ \E m \in Mutators : Sleep(m)
  \/ \E m \in Mutators : Add(m)
  \/ \E u \in BreachWork, f \in BreachFree :
       setups < MaxSetups /\ setup_for_mark(u, f)
  \/ \E c \in BreachWork, f \in BreachFree :
       setups < MaxSetups /\ setup_for_evac(c, f)
  \/ \E u \in BreachWork, f \in BreachFree :
       setups < MaxSetups /\ setup_for_updaterefs(u, f)
  \/ \E c \in CapacityValues : setups < MaxSetups /\ setup_for_idle(c)
  \/ RestartLoad
  \/ RestartCas
  \/ RestartStore

BreachSpec == BreachInit /\ [][BreachNext]_vars

TypeOK ==
  /\ _budget \in Int
  /\ \A m \in Mutators : ms[m] \in 0..(ShenandoahPacingMaxDelay + 1)
  /\ calls \in 0..MaxCalls
  /\ setups \in 0..MaxSetups

\* ------------------------------------------------------------------ claims

\* C1: every pace_for_alloc call returns (no mutator stays inside a call for
\* ever), whatever the other mutators and the phase driver do and even if
\* the budget is never replenished, and its elapsed time never exceeds
\* ShenandoahPacingMaxDelay + 1 ms.
C1_BoundedWait ==
  /\ [](\A m \in Mutators : ms[m] <= ShenandoahPacingMaxDelay + 1)
  /\ \A m \in Mutators : []<>(pc[m] = "idle")

\* A mutator has slept one quantum past the maximal delay and is on the
\* timeout branch, no phase setup having replenished the budget.
C1_Witness ==
  \E m \in Mutators :
    /\ pc[m] = "add" /\ site[m] = "force"
    /\ ms[m] = ShenandoahPacingMaxDelay + 1
    /\ setups = 0

\* C2: no double-spend.  The budget is the value the last restart_with
\* installed minus the costs of exactly the claims whose CAS succeeded
\* since, under every interleaving of the loads and CASes; and a claim goes
\* to its CAS only from a budget that covers its cost, so never from 0.
C2_NoDoubleSpend ==
  /\ _budget = installed - spent
  /\ \A m \in Mutators :
       pc[m] = "cas" => /\ tax[m] >= 1
                        /\ cur[m] >= tax[m]
                        /\ new_val[m] = cur[m] - tax[m]

\* With no phase setup in the run, a claim has loaded the budget and another
\* claim's CAS has succeeded since: the first claim's CAS must not install.
C2_Witness ==
  \E m \in Mutators :
    /\ pc[m] = "cas" /\ cur[m] # _budget
    /\ spent > 0 /\ setups = 0

\* C3 as stated: after restart_with(b, t) has returned, the pacer state is
\* exactly (b, t) when the only claims whose CAS succeeded since its CAS are
\* claims that were in flight when it ran.
C3_InFlightClaimsLost ==
  (dpc = "idle" /\ spent = staleSpent) =>
     (_budget = initial /\ _tax_rate = tax_rate)

\* C3, amended: after restart_with(b, t) has returned, the tax rate is t and
\* the budget is b minus the costs of the claims whose CAS succeeded after
\* restart_with's CAS (claims in flight at that moment included); what was
\* claimed before that CAS is overwritten.
C3_ReplaceSupersedes ==
  dpc = "idle" => (_tax_rate = tax_rate /\ _budget = initial - spent)

\* A phase setup has returned and a claim that was in flight when it ran has
\* been charged to the budget it installed.
C3_Witness == dpc = "idle" /\ setups > 0 /\ staleSpent > 0

\* C4: the forced claim of the timeout branch, claim_for_alloc(words, true),
\* always ends by installing budget - cost.
C4_ForcedClaimDeducts ==
  [][\A m \in Mutators :
       (force(m) /\ pc[m] \in {"load", "cas"} /\ pc'[m] = "idle")
         => _budget' = _budget - tax[m]]_vars

\* C5: a claim with force == false that reads a budget below its cost
\* returns false and changes neither the budget nor the tax rate; a claim
\* that reads a budget covering its cost goes to its CAS, and when the CAS
\* succeeds the budget drops by exactly the cost and the claim returns true;
\* no step of a mutator writes the tax rate.
C5_ClaimFrame ==
  [][\A m \in Mutators :
       /\ (pc[m] = "load" /\ ~force(m) /\ pc'[m] # "load")
            => IF _budget < tax[m]
                 THEN pc'[m] = "sleep" /\ _budget' = _budget
                 ELSE pc'[m] = "cas" /\ cur'[m] = _budget /\ _budget' = _budget
       /\ (pc[m] = "cas" /\ pc'[m] # "cas")
            => IF _budget = cur[m]
                 THEN /\ _budget' = _budget - tax[m]
                      /\ pc'[m] \in {"idle", "add"}
                 ELSE pc'[m] = "load" /\ _budget' = _budget
       /\ pc'[m] # pc[m] => _tax_rate' = _tax_rate]_vars

\* A claim that failed for want of budget has succeeded on a retry after a
\* phase setup replaced the budget, and budget is left over.
C5_Witness ==
  \E m \in Mutators :
    /\ pc[m] = "add" /\ site[m] = "retry"
    /\ epoch >= 1 /\ spent > 0 /\ _budget > 0

\* C6: the budget becomes negative only by the CAS of a forced claim: no
\* step of a claim with force == false and no step of restart_with installs
\* a negative budget.
C6_NegativeOnlyForced ==
  [][(_budget' < 0 /\ _budget' # _budget)
       => \E m \in Mutators : force(m) /\ pc[m] = "cas" /\ pc'[m] # "cas"]_vars

\* Claims with force == false have used the budget of a phase setup up to
\* the last word.
C6_Witness == _budget = 0 /\ spent > 0 /\ epoch >= 1

\* C7: restart_with always completes (the phase driver never stays inside
\* it for ever), whatever the mutators do (sleep, retry, stop): the phase
\* driver never blocks on the pacer state.
C7_RestartCompletes == []<>(dpc = "idle")

\* restart_with's CAS is about to be defeated by a claim, while a mutator
\* sleeps in the slow path.
C7_Witness ==
  /\ dpc = "cas" /\ dcur # _budget
  /\ \E m \in Mutators : pc[m] = "sleep"

\* The tax rate a claim read is newer than / older than the budget it is
\* about to be charged against.
NewTaxOldBudget(m) == pc[m] \in {"load", "cas"} /\ taxEpoch[m] > epoch
OldTaxNewBudget(m) == pc[m] \in {"load", "cas"} /\ taxEpoch[m] < epoch

Unrecorded(m) ==
  \/ pc[m] \in {"sleep", "add"}
  \/ pc[m] \in {"tax", "load", "cas"} /\ site[m] = "retry"

\* C9: the histogram holds one record for every call that entered the slow
\* path, added before the call returns, and none for a fast-path call.
C9_DelayConservation ==
  Total(_delays) = slowEntered - Cardinality({m \in Mutators : Unrecorded(m)})

\* Two calls have returned: one on the fast path, without a record, one
\* after a successful retry at 1 ms, with its record.
C9_Witness ==
  /\ calls = 2 /\ \A m \in Mutators : pc[m] = "idle"
  /\ slowEntered = 1 /\ Total(_delays) = 1 /\ _delays[Level(1)] = 1

\* C10: the tax rate setup_for_mark, setup_for_evac and setup_for_updaterefs
\* install is at least 1.1, and the tax rate setup_for_idle installs is 1.
C10_TaxFloor ==
  (dpc = "idle" /\ setups > 0) =>
     IF phase = "idle" THEN _tax_rate = One
                       ELSE ~FracLess(_tax_rate, Frac(11, 10))

\* setup_for_evac has installed the floor, 1.1, with live data in the
\* collection set.
C10_Witness ==
  /\ dpc = "idle" /\ setups > 0 /\ phase = "evac"
  /\ _tax_rate = Frac(11, 10) /\ initial > 0

\* C11: with nonTaxable = free * slack / 100 (integer division) and
\* taxable = free - nonTaxable, the tax rate a cycle setup installs is
\* max(1, k * work / taxable) * 1.1, where (k, work) is (3, used) for mark,
\* (2, live bytes of the collection set) for evacuation and (1, used) for
\* update-refs.  The equality of rationals is stated by cross-multiplication.
C11_TaxFormula ==
  (dpc = "idle" /\ setups > 0 /\ phase # "idle") =>
     LET nonTaxable == (heap.free * ShenandoahPacingCycleSlack) \div 100
         taxable    == heap.free - nonTaxable
         k          == CASE phase = "mark"       -> 3
                         [] phase = "evac"       -> 2
                         [] phase = "updaterefs" -> 1
         kw         == k * heap.work
     IN  IF kw > taxable
           THEN _tax_rate.num * 10 * taxable = 11 * kw * _tax_rate.den
           ELSE _tax_rate.num * 10 = 11 * _tax_rate.den

\* used = 90, free = 10, slack = 10: nonTaxable = 1, taxable = 9, and
\* setup_for_mark has installed the tax rate 33.
C11_Witness ==
  /\ dpc = "idle" /\ setups > 0 /\ phase = "mark"
  /\ heap.work = 90 /\ heap.free = 10 /\ ShenandoahPacingCycleSlack = 10
  /\ _tax_rate = Frac(33, 1)

\* C12: with no concurrent claim, the budget a phase setup has installed
\* is its allowance times the tax rate it installed, truncated and converted
\* from bytes to heap words; the allowance is capacity * idleSlack / 100 at
\* tax rate 1 for setup_for_idle and nonTaxable = free * slack / 100 for the
\* three cycle setups.  floor(floor(a * t) / 2^L) = b is stated as
\* b * 2^L * den <= a * num < (b + 1) * 2^L * den.
C12_BudgetIsTaxedAllowance ==
  (dpc = "idle" /\ setups > 0) =>
     LET allowance ==
           IF phase = "idle"
             THEN (heap.capacity * ShenandoahPacingIdleSlack) \div 100
             ELSE (heap.free * ShenandoahPacingCycleSlack) \div 100
         unit == Pow2(LogHeapWordSize) * _tax_rate.den
     IN  /\ _budget * unit <= allowance * _tax_rate.num
         /\ allowance * _tax_rate.num < (_budget + 1) * unit
         /\ phase = "idle" => _tax_rate.num = _tax_rate.den
         /\ _tax_rate = tax_rate

\* setup_for_idle with capacity = 1000 MB and idleSlack = 1 has installed
\* the words of 10 MB at tax rate 1.
C12_Witness ==
  /\ dpc = "idle" /\ setups > 0 /\ phase = "idle"
  /\ heap.capacity = 1000 * 1024 * 1024 /\ ShenandoahPacingIdleSlack = 1
  /\ _budget * Pow2(LogHeapWordSize) = 10 * 1024 * 1024
  /\ _tax_rate = One

\* The setup in progress is a cycle setup called with taxable <= 0.
NoTaxable ==
  /\ dpc # "idle" /\ phase \in {"mark", "evac", "updaterefs"}
  /\ heap.free - NonTaxable(heap.free, ShenandoahPacingCycleSlack) <= 0

\* C13: a precondition violation fails fast.  A cycle setup called with
\* taxable <= 0 (free == 0) stops before restart_with writes the budget or
\* the tax rate, and while pacing is disabled no call changes the budget or
\* the tax rate.
C13_FailFast ==
  [][/\ NoTaxable => (epoch' = epoch /\ taxStores' = taxStores)
     /\ ~ShenandoahPacing => (_budget' = _budget /\ _tax_rate' = _tax_rate)]_vars

\* C14 as stated: every slow-path retry and the forced claim of a
\* pace_for_alloc call use the cost computed at the call's fast-path attempt.
C14_CostFixedPerCall ==
  \A m \in Mutators :
    (pc[m] \in {"load", "cas"} /\ site[m] # "fast") => tax[m] = fastCost[m]

\* C14, amended: every slow-path retry and the forced claim compute the cost
\* anew, as max(1, floor(words * r)) for the tax rate r current when that
\* claim_for_alloc call starts, whatever the fast-path attempt computed.
C14_CostPerAttempt ==
  [][\A m \in Mutators :
       (pc[m] = "tax" /\ site[m] # "fast" /\ pc'[m] = "load") =>
          LET p == words[m] * _tax_rate.num
              d == _tax_rate.den
          IN  \/ tax'[m] >= 1 /\ tax'[m] * d <= p /\ p < (tax'[m] + 1) * d
              \/ tax'[m] = 1 /\ p < d]_vars

\* A phase setup stored a new tax rate while a call was in the slow path,
\* and the call's retry goes on with a cost other than its fast-path cost.
C14_Witness ==
  \E m \in Mutators :
    /\ pc[m] \in {"load", "cas"} /\ site[m] = "retry"
    /\ tax[m] # fastCost[m] /\ taxStores >= 1

\* Mutator m is inside a claim_for_alloc call.
InClaim(m) == pc[m] \in {"tax", "load", "cas"}

\* C15: every claim_for_alloc call completes, whatever the other mutators'
\* claims do, the phase setups being finitely many: the loop goes round
\* again only when the budget is no longer the value the claim loaded, and
\* every successful CAS of a claim lowers the budget by at least 1 and
\* leaves it non-negative; so no mutator stays in the claim loop for ever.
C15_ClaimCompletes ==
  /\ [][\A m \in Mutators :
          /\ (pc[m] = "cas" /\ pc'[m] = "load") => _budget # cur[m]
          /\ (pc[m] = "cas" /\ ~InClaim(m)')
                => (_budget' <= _budget - 1 /\ _budget' >= 0)]_vars
  /\ \A m \in Mutators : []<>(~InClaim(m))

\* A claim's CAS is about to be defeated because the other mutator's claim
\* has lowered the budget since the load, with no phase setup in the run.
C15_Witness ==
  \E m \in Mutators :
    /\ pc[m] = "cas" /\ cur[m] > _budget
    /\ setups = 0 /\ spent >= 1

\* C16: the cost of a claim is max(1, floor(words * tax_rate)) for the tax
\* rate read at the start of the claim_for_alloc call; it stays the same
\* over the CAS retries of that call; it is at least 1 for every size,
\* words == 0 included; so every successful claim CAS strictly lowers the
\* budget.
C16_CostOfClaim ==
  [][\A m \in Mutators :
       /\ (pc[m] = "tax" /\ pc'[m] = "load")
            => LET floor == (words[m] * _tax_rate.num) \div _tax_rate.den
               IN  tax'[m] = IF floor > 1 THEN floor ELSE 1
       /\ (pc[m] \in {"load", "cas"} /\ pc'[m] \in {"load", "cas"})
            => (tax'[m] = tax[m] /\ tax[m] >= 1)
       /\ (pc[m] = "cas" /\ pc'[m] \notin {"load", "cas"})
            => _budget' < _budget]_vars

\* A claim for 0 words made under a tax rate above 1 costs 1, and its CAS is
\* about to succeed on a budget that earlier claims have lowered.
C16_Witness ==
  \E m \in Mutators :
    /\ pc[m] = "cas" /\ words[m] = 0 /\ tax[m] = 1
    /\ cur[m] = _budget /\ spent >= 1
    /\ FracLess(One, _tax_rate)

\* The claim of mutator m loaded the budget before the last successful CAS
\* of restart_with and has not yet done its own CAS.
LoadedBeforeRestart(m) == pc[m] = "cas" /\ loadEpoch[m] < epoch

\* C17: replaces and claims are linearizable.  The budget is always the
\* value the last successful CAS of restart_with installed minus the costs
\* of the claims whose CAS succeeded after it; and the CAS of a claim that
\* loaded the budget before a restart installs nothing and the claim loads
\* again, unless the budget now equals the value it loaded, in which case
\* what it installs is the present budget minus its cost.
C17_Linearizable ==
  /\ [](_budget + spent = installed)
  /\ [][\A m \in Mutators :
          (LoadedBeforeRestart(m) /\ pc'[m] # "cas") =>
             IF cur[m] = _budget
               THEN _budget' = _budget - tax[m]
               ELSE _budget' = _budget /\ pc'[m] = "load"]_vars

\* A claim loaded the budget, restart_with then replaced it by a different
\* value, and the claim's CAS is still to come.
C17_Witness ==
  \E m \in Mutators : LoadedBeforeRestart(m) /\ cur[m] # _budget

\* C18: restart_with installs the budget before the tax rate and a claim
\* reads the tax rate before the budget.  So, the phase driver being one
\* thread, the tax rates stored never outnumber the budgets installed, and a
\* claim that read the tax rate of the k-th restart_with loads, and CASes
\* against, a budget installed by the k-th or a later restart_with: a newer
\* tax rate is never charged against an older budget.
C18_PublicationOrder ==
  /\ taxStores <= epoch /\ epoch <= taxStores + 1
  /\ \A m \in Mutators :
       /\ pc[m] \in {"load", "cas"} => taxEpoch[m] <= taxStores
       /\ pc[m] = "cas" => (taxEpoch[m] <= loadEpoch[m] /\ loadEpoch[m] <= epoch)

\* A claim has read the tax rate a phase setup stored and has loaded the
\* budget the same setup installed, which another claim has already lowered.
C18_Witness ==
  \E m \in Mutators :
    /\ pc[m] = "cas" /\ taxEpoch[m] = 1 /\ loadEpoch[m] = 1
    /\ spent >= 1 /\ cur[m] = _budget

\* C19: the delay a slow-path call records is above ShenandoahPacingMaxDelay
\* exactly when the call is on the timeout branch, and at most
\* ShenandoahPacingMaxDelay exactly when its retry claim succeeded; and a
\* retry is only ever in progress with an elapsed time that has passed the
\* timeout check, the forced claim only with one that has failed it.
C19_RecordedDelay ==
  \A m \in Mutators :
    /\ pc[m] = "add" =>
         /\ site[m] \in {"force", "retry"}
         /\ site[m] = "force" <=> ms[m] > ShenandoahPacingMaxDelay
         /\ site[m] = "retry" <=> ms[m] <= ShenandoahPacingMaxDelay
    /\ site[m] = "retry" => (1 <= ms[m] /\ ms[m] <= ShenandoahPacingMaxDelay)
    /\ site[m] = "force" => ms[m] > ShenandoahPacingMaxDelay

\* A call is about to record a retry that succeeded at the deadline itself,
\* ms == ShenandoahPacingMaxDelay, on a budget a phase setup installed.
C19_Witness ==
  \E m \in Mutators :
    /\ pc[m] = "add" /\ site[m] = "retry"
    /\ ms[m] = ShenandoahPacingMaxDelay /\ epoch >= 1

====
